---------------------------- MODULE Spec2Model ----------------------------
(***************************************************************************)
(* State-machine model of the xDS resolver                                 *)
(* (src/core/ext/filters/client_channel/resolver/xds/xds_resolver.cc):     *)
(* the XdsResolver lifecycle (StartLocked, ShutdownLocked), the three      *)
(* ListenerWatcher callbacks, the weighted-cluster action-name cache       *)
(* (weighted_cluster_index_map_) and the service-config compiler.          *)
(*                                                                         *)
(* A std::string is a sequence of one-character strings, ordered as        *)
(* std::string is (byte-wise, by character code), so that the sorted       *)
(* containers of the code (std::set, std::map) iterate in the code's order.*)
(***************************************************************************)
EXTENDS Integers, Sequences, FiniteSets, TLC

\* ------------------------------------------------------------------ bounds

\* Longest route table of one update.
MaxRoutes == 2
\* Largest next_index an update may leave in a bucket (uint64_t in the code;
\* the cap only stops the counter, it is a guard of OnListenerChanged).
MaxIndex == 3

\* ----------------------------------------------------------------- strings

\* Character code of the characters cluster names and keys are made of.
Ord(c) ==
  CASE c = "\"" -> 34
    [] c = "0" -> 48 [] c = "1" -> 49 [] c = "2" -> 50 [] c = "3" -> 51
    [] c = "4" -> 52 [] c = "5" -> 53 [] c = "6" -> 54 [] c = "7" -> 55
    [] c = "8" -> 56 [] c = "9" -> 57
    [] c = "_" -> 95
    [] c = "a" -> 97 [] c = "b" -> 98 [] c = "c" -> 99

\* std::string operator<: lexicographic on character codes.
RECURSIVE StrLess(_, _)
StrLess(s, t) ==
  IF t = <<>> THEN FALSE
  ELSE IF s = <<>> THEN TRUE
  ELSE IF Head(s) # Head(t) THEN Ord(Head(s)) < Ord(Head(t))
  ELSE StrLess(Tail(s), Tail(t))

\* The smallest string of a non-empty set: begin() of a std::set / std::map.
MinStr(S) == CHOOSE x \in S : \A y \in S \ {x} : StrLess(x, y)

\* Iteration order of a std::set<std::string> / of the keys of a std::map.
RECURSIVE SortedStrings(_)
SortedStrings(S) ==
  IF S = {} THEN <<>>
  ELSE LET m == MinStr(S) IN <<m>> \o SortedStrings(S \ {m})

\* absl::StrJoin(parts, sep) over a sequence of strings.
RECURSIVE StrJoin(_, _)
StrJoin(parts, sep) ==
  IF parts = <<>> THEN <<>>
  ELSE IF Len(parts) = 1 THEN parts[1]
  ELSE parts[1] \o sep \o StrJoin(Tail(parts), sep)

Digits == <<"0", "1", "2", "3", "4", "5", "6", "7", "8", "9">>

\* absl::StrFormat("%d", n) for n >= 0.
RECURSIVE FormatInt(_)
FormatInt(n) ==
  IF n < 10 THEN <<Digits[n + 1]>>
  ELSE FormatInt(n \div 10) \o <<Digits[(n % 10) + 1]>>

\* --------------------------------------------------------------- std::map

EmptyMap == [k \in {} |-> 0]

MapPut(m, k, v) == [x \in (DOMAIN m) \cup {k} |-> IF x = k THEN v ELSE m[x]]

MapErase(m, k) == [x \in (DOMAIN m) \ {k} |-> m[x]]

\* ClusterNamesInfo as default-constructed.
NewClusterNamesInfo == [next_index |-> 0, cluster_weights_map |-> EmptyMap]

\* std::map::operator[] on a WeightedClusterIndexMap: the entry, inserted
\* default-constructed when missing.
MapIndex(m, k) == IF k \in DOMAIN m THEN m ELSE MapPut(m, k, NewClusterNamesInfo)

\* ------------------------------------------------------------------ inputs

Underscore == <<"_">>

ClusterWeight(name, weight) == [name |-> name, weight |-> weight]

\* RdsRoute::Matchers: the type of the path matcher and, per header matcher,
\* its type. A type that is none of the enumerators the switches of
\* CreateServiceConfigRoute name is "UNRECOGNIZED".
Matchers(path_type, header_types) ==
  [path_matcher |-> path_type, header_matchers |-> header_types]

\* A route to one cluster (weighted_clusters empty) or to weighted clusters,
\* matched on a path prefix.
ClusterRoute(name) ==
  [cluster_name |-> name, weighted_clusters |-> <<>>,
   matchers |-> Matchers("PREFIX", <<>>)]
WeightedRoute(wcs) ==
  [cluster_name |-> <<>>, weighted_clusters |-> wcs,
   matchers |-> Matchers("PREFIX", <<>>)]
\* The same route with other matchers.
WithMatchers(route, path_type, header_types) ==
  [route EXCEPT !.matchers = Matchers(path_type, header_types)]

name_a == <<"a">>
name_b == <<"b">>
name_a_1_b == <<"a", "_", "1", "_", "b">>
name_a_b_0 == <<"a", "_", "b", "_", "0">>
name_quote == <<"c", "\"">>
name_0 == <<"0">>
name_1_a == <<"1", "_", "a">>
name_0_1 == <<"0", "_", "1">>

\* The routes an update is made of: three weight distributions over the
\* clusters {a, b}; one cluster whose name holds the key separator and a
\* digit; a single cluster named as the allocator names an action; a single
\* cluster whose name holds the JSON string delimiter; the first
\* distribution with its pairs in the other order, matched on an exact
\* path; a route whose path matcher and one whose header matcher has an
\* unrecognized type.
Routes ==
  { WeightedRoute(<<ClusterWeight(name_a, 1), ClusterWeight(name_b, 1)>>),
    WeightedRoute(<<ClusterWeight(name_a, 1), ClusterWeight(name_b, 2)>>),
    WeightedRoute(<<ClusterWeight(name_a, 2), ClusterWeight(name_b, 1)>>),
    WeightedRoute(<<ClusterWeight(name_a_1_b, 1)>>),
    ClusterRoute(name_a_b_0),
    ClusterRoute(name_quote),
    WithMatchers(
      WeightedRoute(<<ClusterWeight(name_b, 1), ClusterWeight(name_a, 1)>>),
      "PATH", <<>>),
    WithMatchers(ClusterRoute(name_a), "UNRECOGNIZED", <<>>),
    WithMatchers(ClusterRoute(name_a), "PREFIX", <<"UNRECOGNIZED">>) }

\* XdsApi::RdsUpdate::routes: a route table of at most MaxRoutes routes.
RdsUpdates == UNION {[1..n -> Routes] : n \in 0..MaxRoutes}

\* --------------------------------------------------------- the allocator

\* GetWeightedClustersKey: the names go through a std::set and are joined by
\* "_"; the "<name>_<weight>" strings go through a std::set and are joined
\* by "_".
GetWeightedClustersKey(weighted_clusters) ==
  LET cluster_names ==
        {weighted_clusters[i].name : i \in DOMAIN weighted_clusters}
      cluster_weights ==
        {weighted_clusters[i].name \o Underscore
           \o FormatInt(weighted_clusters[i].weight) :
         i \in DOMAIN weighted_clusters}
  IN [cluster_names_key |-> StrJoin(SortedStrings(cluster_names), Underscore),
      cluster_weights_key |->
        StrJoin(SortedStrings(cluster_weights), Underscore)]

\* Routes over cluster names made of digits and the key separator: the
\* clusters {0, 1_a} and the clusters {0_1, a}, each with weights 1 and 1,
\* and the first weight distribution over {a, b}.
SplitRoutes ==
  { WeightedRoute(<<ClusterWeight(name_0, 1), ClusterWeight(name_1_a, 1)>>),
    WeightedRoute(<<ClusterWeight(name_0_1, 1), ClusterWeight(name_a, 1)>>),
    WeightedRoute(<<ClusterWeight(name_a, 1), ClusterWeight(name_b, 1)>>) }

\* The route tables of at most MaxRoutes routes of SplitRoutes.
SplitUpdates == UNION {[1..n -> SplitRoutes] : n \in 0..MaxRoutes}

\* GetWeightedClustersKey of the weighted_clusters of the model's routes,
\* computed once.
KeysOf == [weighted_clusters \in
             {r.weighted_clusters : r \in Routes \cup SplitRoutes} \ {<<>>} |->
             GetWeightedClustersKey(weighted_clusters)]

\* Lines 391-404: actions_to_process, cluster_weights_key -> cluster_names_key;
\* the first route with a given cluster_weights_key decides its entry.
RECURSIVE ActionsToProcess(_, _, _)
ActionsToProcess(routes, i, actions) ==
  IF i > Len(routes) THEN actions
  ELSE IF routes[i].weighted_clusters = <<>>
       THEN ActionsToProcess(routes, i + 1, actions)
       ELSE LET keys == KeysOf[routes[i].weighted_clusters]
            IN IF keys.cluster_weights_key \in DOMAIN actions
               THEN ActionsToProcess(routes, i + 1, actions)
               ELSE ActionsToProcess(routes, i + 1,
                      MapPut(actions, keys.cluster_weights_key,
                             keys.cluster_names_key))

\* A first pass that does not copy next_index into the new bucket (lines
\* 421-422 left out). The property C18 must tell it from the code's.
FirstPassStep_NoCopy(st, cluster_weights_key) ==
  LET cluster_names_key == st.actions[cluster_weights_key]
  IN IF cluster_names_key \notin DOMAIN st.old THEN st
     ELSE
       LET old_info == st.old[cluster_names_key]
           new0 == MapIndex(st.new, cluster_names_key)
           new_info == new0[cluster_names_key]
           old_cluster_weights_map == old_info.cluster_weights_map
       IN IF cluster_weights_key \in DOMAIN old_cluster_weights_map
          THEN [st EXCEPT
                  !.old = [st.old EXCEPT
                             ![cluster_names_key].cluster_weights_map =
                               MapErase(old_cluster_weights_map,
                                        cluster_weights_key)],
                  !.new = MapPut(new0, cluster_names_key,
                            [new_info EXCEPT !.cluster_weights_map =
                               MapPut(new_info.cluster_weights_map,
                                      cluster_weights_key,
                                      old_cluster_weights_map[cluster_weights_key])]),
                  !.actions = MapErase(st.actions, cluster_weights_key),
                  !.carried = st.carried \cup
                     {[names_key |-> cluster_names_key,
                       key |-> cluster_weights_key,
                       index |-> old_cluster_weights_map[cluster_weights_key]]}]
          ELSE [st EXCEPT !.new = MapPut(new0, cluster_names_key, new_info)]

\* Lines 411-440, one iteration of the first pass, for the action
\* cluster_weights_key; st holds the old map (weighted_cluster_index_map_),
\* the new map and the actions still to process.
FirstPassStep(st, cluster_weights_key) ==
  LET cluster_names_key == st.actions[cluster_weights_key]
  IN IF cluster_names_key \notin DOMAIN st.old THEN st
     ELSE
       LET old_info == st.old[cluster_names_key]
           new0 == MapIndex(st.new, cluster_names_key)
           new_info == [new0[cluster_names_key] EXCEPT
                          !.next_index = old_info.next_index]
           old_cluster_weights_map == old_info.cluster_weights_map
       IN IF cluster_weights_key \in DOMAIN old_cluster_weights_map
          THEN [st EXCEPT
                  !.old = [st.old EXCEPT
                             ![cluster_names_key].cluster_weights_map =
                               MapErase(old_cluster_weights_map,
                                        cluster_weights_key)],
                  !.new = MapPut(new0, cluster_names_key,
                            [new_info EXCEPT !.cluster_weights_map =
                               MapPut(new_info.cluster_weights_map,
                                      cluster_weights_key,
                                      old_cluster_weights_map[cluster_weights_key])]),
                  !.actions = MapErase(st.actions, cluster_weights_key),
                  !.carried = st.carried \cup
                     {[names_key |-> cluster_names_key,
                       key |-> cluster_weights_key,
                       index |-> old_cluster_weights_map[cluster_weights_key]]}]
          ELSE [st EXCEPT !.new = MapPut(new0, cluster_names_key, new_info)]

\* A second pass that never reuses: every remaining action takes next_index.
\* The reuse property C2 must tell it from the code's.
SecondPassStep_NoReuse(st, cluster_weights_key) ==
  LET cluster_names_key == st.actions[cluster_weights_key]
      new0 == MapIndex(st.new, cluster_names_key)
      new_info == new0[cluster_names_key]
  IN [st EXCEPT
        !.new = MapPut(new0, cluster_names_key,
                  [next_index |-> new_info.next_index + 1,
                   cluster_weights_map |->
                     MapPut(new_info.cluster_weights_map,
                            cluster_weights_key, new_info.next_index)]),
        !.old = MapIndex(st.old, cluster_names_key),
        !.fresh = st.fresh \cup
           {[names_key |-> cluster_names_key, key |-> cluster_weights_key,
             index |-> new_info.next_index]}]

\* A second pass that reuses the entry left over with the largest key. The
\* tie-break property C11 must tell it from the code's.
SecondPassStep_LargestKey(st, cluster_weights_key) ==
  LET cluster_names_key == st.actions[cluster_weights_key]
      new0 == MapIndex(st.new, cluster_names_key)
      new_info == new0[cluster_names_key]
      old0 == MapIndex(st.old, cluster_names_key)
      old_cluster_weights_map == old0[cluster_names_key].cluster_weights_map
  IN IF DOMAIN old_cluster_weights_map # {}
     THEN LET old_key ==
                CHOOSE k \in DOMAIN old_cluster_weights_map :
                  \A k2 \in DOMAIN old_cluster_weights_map : ~StrLess(k, k2)
          IN [st EXCEPT
                !.new = MapPut(new0, cluster_names_key,
                          [new_info EXCEPT !.cluster_weights_map =
                             MapPut(new_info.cluster_weights_map,
                                    cluster_weights_key,
                                    old_cluster_weights_map[old_key])]),
                !.old = [old0 EXCEPT ![cluster_names_key].cluster_weights_map =
                           MapErase(old_cluster_weights_map, old_key)],
                !.reused = st.reused \cup
                   {[names_key |-> cluster_names_key, from |-> old_key,
                     to |-> cluster_weights_key,
                     index |-> old_cluster_weights_map[old_key]]}]
     ELSE [st EXCEPT
             !.new = MapPut(new0, cluster_names_key,
                       [next_index |-> new_info.next_index + 1,
                        cluster_weights_map |->
                          MapPut(new_info.cluster_weights_map,
                                 cluster_weights_key, new_info.next_index)]),
             !.old = old0,
             !.fresh = st.fresh \cup
                {[names_key |-> cluster_names_key, key |-> cluster_weights_key,
                  index |-> new_info.next_index]}]

\* A second pass that, when the action's own bucket has nothing left over,
\* reuses an index left over in another bucket. The leakage property C12
\* must tell it from the code's.
SecondPassStep_AnyBucket(st, cluster_weights_key) ==
  LET cluster_names_key == st.actions[cluster_weights_key]
      new0 == MapIndex(st.new, cluster_names_key)
      new_info == new0[cluster_names_key]
      old0 == MapIndex(st.old, cluster_names_key)
      donors == {n \in DOMAIN old0 : DOMAIN old0[n].cluster_weights_map # {}}
  IN IF donors # {}
     THEN LET donor == IF cluster_names_key \in donors THEN cluster_names_key
                       ELSE MinStr(donors)
              old_key == MinStr(DOMAIN old0[donor].cluster_weights_map)
          IN [st EXCEPT
                !.new = MapPut(new0, cluster_names_key,
                          [new_info EXCEPT !.cluster_weights_map =
                             MapPut(new_info.cluster_weights_map,
                                    cluster_weights_key,
                                    old0[donor].cluster_weights_map[old_key])]),
                !.old = [old0 EXCEPT ![donor].cluster_weights_map =
                           MapErase(old0[donor].cluster_weights_map, old_key)],
                !.reused = st.reused \cup
                   {[names_key |-> cluster_names_key, from |-> old_key,
                     to |-> cluster_weights_key,
                     index |-> old0[donor].cluster_weights_map[old_key]]}]
     ELSE [st EXCEPT
             !.new = MapPut(new0, cluster_names_key,
                       [next_index |-> new_info.next_index + 1,
                        cluster_weights_map |->
                          MapPut(new_info.cluster_weights_map,
                                 cluster_weights_key, new_info.next_index)]),
             !.old = old0,
             !.fresh = st.fresh \cup
                {[names_key |-> cluster_names_key, key |-> cluster_weights_key,
                  index |-> new_info.next_index]}]

\* A second pass that reuses the left-over entry without erasing it (line
\* 459 left out). The uniqueness property C17 must tell it from the code's.
SecondPassStep_NoErase(st, cluster_weights_key) ==
  LET cluster_names_key == st.actions[cluster_weights_key]
      new0 == MapIndex(st.new, cluster_names_key)
      new_info == new0[cluster_names_key]
      old0 == MapIndex(st.old, cluster_names_key)
      old_cluster_weights_map == old0[cluster_names_key].cluster_weights_map
  IN IF DOMAIN old_cluster_weights_map # {}
     THEN LET old_key == MinStr(DOMAIN old_cluster_weights_map)
          IN [st EXCEPT
                !.new = MapPut(new0, cluster_names_key,
                          [new_info EXCEPT !.cluster_weights_map =
                             MapPut(new_info.cluster_weights_map,
                                    cluster_weights_key,
                                    old_cluster_weights_map[old_key])]),
                !.old = old0,
                !.reused = st.reused \cup
                   {[names_key |-> cluster_names_key, from |-> old_key,
                     to |-> cluster_weights_key,
                     index |-> old_cluster_weights_map[old_key]]}]
     ELSE [st EXCEPT
             !.new = MapPut(new0, cluster_names_key,
                       [next_index |-> new_info.next_index + 1,
                        cluster_weights_map |->
                          MapPut(new_info.cluster_weights_map,
                                 cluster_weights_key, new_info.next_index)]),
             !.old = old0,
             !.fresh = st.fresh \cup
                {[names_key |-> cluster_names_key, key |-> cluster_weights_key,
                  index |-> new_info.next_index]}]

\* Lines 444-466, one iteration of the second pass.
SecondPassStep(st, cluster_weights_key) ==
  LET cluster_names_key == st.actions[cluster_weights_key]
      new0 == MapIndex(st.new, cluster_names_key)
      new_info == new0[cluster_names_key]
      old0 == MapIndex(st.old, cluster_names_key)
      old_cluster_weights_map == old0[cluster_names_key].cluster_weights_map
  IN IF DOMAIN old_cluster_weights_map # {}
     THEN LET old_key == MinStr(DOMAIN old_cluster_weights_map)
          IN [st EXCEPT
                !.new = MapPut(new0, cluster_names_key,
                          [new_info EXCEPT !.cluster_weights_map =
                             MapPut(new_info.cluster_weights_map,
                                    cluster_weights_key,
                                    old_cluster_weights_map[old_key])]),
                !.old = [old0 EXCEPT ![cluster_names_key].cluster_weights_map =
                           MapErase(old_cluster_weights_map, old_key)],
                !.reused = st.reused \cup
                   {[names_key |-> cluster_names_key, from |-> old_key,
                     to |-> cluster_weights_key,
                     index |-> old_cluster_weights_map[old_key]]}]
     ELSE [st EXCEPT
             !.new = MapPut(new0, cluster_names_key,
                       [next_index |-> new_info.next_index + 1,
                        cluster_weights_map |->
                          MapPut(new_info.cluster_weights_map,
                                 cluster_weights_key, new_info.next_index)]),
             !.old = old0,
             !.fresh = st.fresh \cup
                {[names_key |-> cluster_names_key, key |-> cluster_weights_key,
                  index |-> new_info.next_index]}]

\* Both passes visit the actions in the order of the std::map, by
\* cluster_weights_key; the first pass erases while it iterates.
RECURSIVE FirstPass(_, _)
FirstPass(st, keys) ==
  IF keys = <<>> THEN st
  ELSE FirstPass(FirstPassStep(st, Head(keys)), Tail(keys))

RECURSIVE SecondPass(_, _)
SecondPass(st, keys) ==
  IF keys = <<>> THEN st
  ELSE SecondPass(SecondPassStep(st, Head(keys)), Tail(keys))

\* UpdateWeightedClusterIndexMap (lines 387-468) on the map old_map: the
\* state of the function when it returns. new is the map it commits (line
\* 467) and old what is left of the old map, which it drops; carried,
\* reused and fresh record what the passes did with each action (history
\* only).
UpdateWeightedClusterIndexMap(old_map, rds_update) ==
  LET actions_to_process == ActionsToProcess(rds_update, 1, EmptyMap)
      first == FirstPass(
                 [old |-> old_map, new |-> EmptyMap,
                  actions |-> actions_to_process,
                  carried |-> {}, reused |-> {}, fresh |-> {}],
                 SortedStrings(DOMAIN actions_to_process))
  IN SecondPass(first, SortedStrings(DOMAIN first.actions))

\* WeightedClustersActionName (lines 371-385): ok is FALSE when one of the
\* two GPR_ASSERTs fails, which aborts the process.
WeightedClustersActionName(map, weighted_clusters) ==
  LET keys == KeysOf[weighted_clusters]
  IN IF keys.cluster_names_key \notin DOMAIN map
     THEN [ok |-> FALSE, name |-> <<>>]
     ELSE LET cluster_weights_map ==
                map[keys.cluster_names_key].cluster_weights_map
          IN IF keys.cluster_weights_key \notin DOMAIN cluster_weights_map
             THEN [ok |-> FALSE, name |-> <<>>]
             ELSE [ok |-> TRUE,
                   name |-> keys.cluster_names_key \o Underscore \o
                     FormatInt(cluster_weights_map[keys.cluster_weights_key])]

\* ---------------------------------------------------------- the compiler

CdsPrefix == <<"c", "d", "s", ":">>
WeightedPrefix == <<"w", "e", "i", "g", "h", "t", "e", "d", ":">>

\* CreateServiceConfigActionCluster: the definition "cds:<name>" of the
\* action that picks one cluster.
CreateServiceConfigActionCluster(cluster_name) ==
  [key |-> CdsPrefix \o cluster_name,
   policy |-> "cds_experimental",
   cluster |-> cluster_name,
   targets |-> <<>>]

\* CreateServiceConfigActionWeightedCluster: the definition "weighted:<name>"
\* with one target per element of the route's weighted_clusters, in order.
CreateServiceConfigActionWeightedCluster(name, clusters) ==
  [key |-> WeightedPrefix \o name,
   policy |-> "weighted_target_experimental",
   cluster |-> <<>>,
   targets |-> [i \in DOMAIN clusters |->
                  [name |-> clusters[i].name, weight |-> clusters[i].weight]]]

\* Lines 222-260: the field a header matcher is emitted as; the default
\* case of the switch leaves header_matcher empty.
HeaderMatcherField(type) ==
  CASE type = "EXACT" -> "exact_match"
    [] type = "REGEX" -> "regex_match"
    [] type = "RANGE" -> "range_match"
    [] type = "PRESENT" -> "present_match"
    [] type = "PREFIX" -> "prefix_match"
    [] type = "SUFFIX" -> "suffix_match"
    [] OTHER -> ""

\* Lines 283-301: the field the path matcher is emitted as; the switch has
\* no default case, and path_match_str stays empty for any other type.
PathMatchStr(type) ==
  CASE type = "PREFIX" -> "prefix"
    [] type = "PATH" -> "path"
    [] type = "REGEX" -> "regex"
    [] OTHER -> ""

\* CreateServiceConfigRoute: the route entry: its path matcher, its header
\* matchers in order, and the action it names.
CreateServiceConfigRoute(action_name, route) ==
  [path_match |-> PathMatchStr(route.matchers.path_matcher),
   headers |-> [i \in DOMAIN route.matchers.header_matchers |->
                  HeaderMatcherField(route.matchers.header_matchers[i])],
   action |-> action_name]

\* Lines 478-481: the action name of a route, or ok = FALSE when a
\* GPR_ASSERT of WeightedClustersActionName fails.
RouteActionName(map, route) ==
  IF route.weighted_clusters = <<>>
  THEN [ok |-> TRUE, name |-> route.cluster_name]
  ELSE WeightedClustersActionName(map, route.weighted_clusters)

\* A loop body that emits a route entry only for the first route of each
\* action. The order property C15 must tell it from the code's.
AddRoute_OnePerAction(st, route, action_name) ==
  IF action_name \in st.actions_set THEN st
  ELSE [st EXCEPT
          !.actions_set = st.actions_set \cup {action_name},
          !.actions_vector =
             Append(st.actions_vector,
               IF route.weighted_clusters = <<>>
               THEN CreateServiceConfigActionCluster(action_name)
               ELSE CreateServiceConfigActionWeightedCluster(
                      action_name, route.weighted_clusters)),
          !.route_table =
             Append(st.route_table,
               CreateServiceConfigRoute(
                 (IF route.weighted_clusters = <<>> THEN CdsPrefix
                  ELSE WeightedPrefix) \o action_name,
                 route))]

\* Lines 482-494: one route added to actions_set, actions_vector and
\* route_table, which st holds.
AddRoute(st, route, action_name) ==
  [st EXCEPT
     !.actions_set = st.actions_set \cup {action_name},
     !.actions_vector =
        IF action_name \in st.actions_set THEN st.actions_vector
        ELSE Append(st.actions_vector,
               IF route.weighted_clusters = <<>>
               THEN CreateServiceConfigActionCluster(action_name)
               ELSE CreateServiceConfigActionWeightedCluster(
                      action_name, route.weighted_clusters)),
     !.route_table =
        Append(st.route_table,
          CreateServiceConfigRoute(
            (IF route.weighted_clusters = <<>> THEN CdsPrefix
             ELSE WeightedPrefix) \o action_name,
            route))]

\* Lines 477-495, the loop over rds_update.routes from route i on. A failed
\* GPR_ASSERT ends the loop (and the process).
RECURSIVE CompileRoutes(_, _, _, _)
RECURSIVE CompileRoute(_, _, _, _, _)
CompileRoute(map, routes, i, st, looked_up) ==
  IF ~looked_up.ok THEN [st EXCEPT !.aborted = TRUE]
  ELSE CompileRoutes(map, routes, i + 1,
                     AddRoute(st, routes[i], looked_up.name))

CompileRoutes(map, routes, i, st) ==
  IF i > Len(routes) THEN st
  ELSE CompileRoute(map, routes, i, st, RouteActionName(map, routes[i]))

NoError == "GRPC_ERROR_NONE"
ParseError == "service config parse error"

\* No ServiceConfig object (a null RefCountedPtr<ServiceConfig>).
NullConfig == [lb_policy |-> "null", actions |-> <<>>, routes |-> <<>>]
\* ServiceConfig::Create("{}"): a config with no load-balancing policy.
EmptyConfig == [lb_policy |-> "none", actions |-> <<>>, routes |-> <<>>]

HasQuote(str) == \E i \in DOMAIN str : str[i] = "\""

\* The assembled text is malformed when a name that was copied into it
\* holds the string delimiter of the text.
Malformed(json) ==
  \/ \E i \in DOMAIN json.actions :
       \/ HasQuote(json.actions[i].key)
       \/ HasQuote(json.actions[i].cluster)
       \/ \E j \in DOMAIN json.actions[i].targets :
            HasQuote(json.actions[i].targets[j].name)
  \/ \E i \in DOMAIN json.routes : HasQuote(json.routes[i].action)

\* ServiceConfig::Create on the assembled text: the document, or an error
\* when the text is rejected.
ServiceConfigCreate(json) ==
  IF Malformed(json)
  THEN [service_config |-> NullConfig, error |-> ParseError]
  ELSE [service_config |-> json, error |-> NoError]

\* Lines 496-515: the text assembled from what the loop left, and what
\* ServiceConfig::Create makes of it.
AssembleJson(loop) ==
  [lb_policy |-> "xds_routing_experimental",
   actions |-> loop.actions_vector,
   routes |-> loop.route_table]

Compiled(update, loop, json, created) ==
  [map |-> update.new,
   alloc |-> [carried |-> update.carried, reused |-> update.reused,
              fresh |-> update.fresh,
              discarded |->
                {[names_key |-> n, key |-> k] :
                 <<n, k>> \in
                   UNION {{<<n2, k2>> :
                             k2 \in DOMAIN update.old[n2].cluster_weights_map} :
                          n2 \in DOMAIN update.old}}],
   aborted |-> loop.aborted,
   json |-> json,
   service_config |-> IF loop.aborted THEN NullConfig
                      ELSE created.service_config,
   error |-> IF loop.aborted THEN NoError ELSE created.error]

CompileJson(update, loop, json) ==
  Compiled(update, loop, json, ServiceConfigCreate(json))

CompileLoop(update, loop) == CompileJson(update, loop, AssembleJson(loop))

CompileUpdate(update, rds_update) ==
  CompileLoop(update,
    CompileRoutes(update.new, rds_update, 1,
      [actions_set |-> {}, actions_vector |-> <<>>, route_table |-> <<>>,
       aborted |-> FALSE]))

\* CreateServiceConfig (lines 470-516) on the map `map`: the map it leaves
\* in weighted_cluster_index_map_ (line 473 commits it before anything is
\* compiled), whether a GPR_ASSERT aborted it, the text it assembled, and
\* what it returns. alloc is the history of the allocator's passes.
CreateServiceConfig(map, rds_update) ==
  CompileUpdate(UpdateWeightedClusterIndexMap(map, rds_update), rds_update)

\* ---------------------------------------------------------- the resolver

VARIABLES
  phase,        \* where the resolver is in its life: "Created", "Started",
                \* "ShutDown", or "Aborted" (a GPR_ASSERT ended the process)
  xds_client,   \* xds_client_: "null", or the client it owns: "ok", "failed"
  watching,     \* the XdsClient was created with a started watch: it
                \* invokes the ListenerWatcher, also with callbacks it had
                \* scheduled before the resolver dropped it
  weighted_cluster_index_map,   \* weighted_cluster_index_map_
  returned,     \* what the last step handed to result_handler(), in order
  last_call,    \* history: the last operation and the phase it ran in
  last_rds,     \* history: the route table of the last update compiled
  compiled,     \* history: what the last CreateServiceConfig did
  start_error,  \* history: the error StartLocked got from the XdsClient
  max_next_index  \* history: per cluster_names_key, the highest next_index
                  \* its bucket had after an update

vars == <<phase, xds_client, watching, weighted_cluster_index_map, returned,
          last_call, last_rds, compiled, start_error, max_next_index>>

\* Channel args are sets of arg keys; args_ is the resolver's base args.
BaseArgs == {"args_"}
XdsClientArg == "grpc.xds_client"
ConfigSelectorArg == "grpc.internal.config_selector"

\* grpc_channel_args_copy_and_add / grpc_channel_args_copy.
ChannelArgsCopyAndAdd(src, to_add) == src \cup to_add
ChannelArgsCopy(src) == src

\* result_handler()->ReturnResult(result) and ->ReturnError(error).
ReturnResult(service_config, args, service_config_error) ==
  [via |-> "ReturnResult", service_config |-> service_config, args |-> args,
   service_config_error |-> service_config_error]
ReturnError(error) ==
  [via |-> "ReturnError", service_config |-> NullConfig, args |-> {},
   service_config_error |-> error]

\* History: the highest next_index each bucket had, with the buckets of map
\* taken in.
Observed(seen, map) ==
  [n \in DOMAIN seen \cup DOMAIN map |->
     IF n \notin DOMAIN map THEN seen[n]
     ELSE IF n \notin DOMAIN seen THEN map[n].next_index
     ELSE IF seen[n] >= map[n].next_index THEN seen[n]
     ELSE map[n].next_index]

NotCompiled ==
  [ran |-> FALSE, aborted |-> FALSE, json |-> NullConfig, error |-> NoError,
   alloc |-> [carried |-> {}, reused |-> {}, fresh |-> {},
              discarded |-> {}]]

Call(op) == [op |-> op, phase |-> phase]

Init ==
  /\ phase = "Created"
  /\ xds_client = "null"
  /\ watching = FALSE
  /\ weighted_cluster_index_map = EmptyMap
  /\ returned = <<>>
  /\ last_call = [op |-> "XdsResolver", phase |-> "Created"]
  /\ last_rds = <<>>
  /\ compiled = NotCompiled
  /\ start_error = NoError
  /\ max_next_index = EmptyMap

\* The XdsClient constructor: with an error the client exists but starts no
\* watch; without one it watches the listener.
MakeXdsClient(error) ==
  [client |-> IF error = NoError THEN "ok" ELSE "failed",
   watching |-> error = NoError]

\* A StartLocked that logs the error of the XdsClient and reports nothing.
\* C9 must tell it from the code's.
StartLocked_NoReturnError(error) ==
  /\ phase = "Created"
  /\ phase' = "Started"
  /\ xds_client' = MakeXdsClient(error).client
  /\ watching' = MakeXdsClient(error).watching
  /\ returned' = <<>>
  /\ last_call' = Call("StartLocked")
  /\ start_error' = error
  /\ UNCHANGED <<weighted_cluster_index_map, last_rds, compiled>>

\* StartLocked (lines 190-203), called once on a created resolver; error is
\* what the XdsClient constructor reports.
StartLocked(error) ==
  /\ phase = "Created"
  /\ phase' = "Started"
  /\ xds_client' = MakeXdsClient(error).client
  /\ watching' = MakeXdsClient(error).watching
  /\ returned' = IF error # NoError THEN <<ReturnError(error)>> ELSE <<>>
  /\ last_call' = Call("StartLocked")
  /\ start_error' = error
  /\ UNCHANGED <<weighted_cluster_index_map, last_rds, compiled>>

\* ShutdownLocked (lines 65-70), called once, on a created or started
\* resolver.
ShutdownLocked ==
  /\ phase \in {"Created", "Started"}
  /\ phase' = "ShutDown"
  /\ xds_client' = "null"
  /\ returned' = <<>>
  /\ last_call' = Call("ShutdownLocked")
  /\ UNCHANGED <<watching, weighted_cluster_index_map, last_rds, compiled,
                 start_error>>

\* A watcher callback that returns at its first line.
Discarded ==
  /\ returned' = <<>>
  /\ UNCHANGED <<phase, xds_client, watching, weighted_cluster_index_map,
                 last_rds, compiled, start_error>>

\* An OnError whose result carries args_ alone. C4 must tell it from the
\* code's.
OnErrorReturns_NoClientArg(error) ==
  IF xds_client = "null" THEN <<>>
  ELSE <<ReturnResult(NullConfig, ChannelArgsCopy(BaseArgs), error)>>

\* ListenerWatcher::OnError (lines 160-170): what it hands to the result
\* handler.
OnErrorReturns(error) ==
  IF xds_client = "null" THEN <<>>
  ELSE <<ReturnResult(NullConfig,
                      ChannelArgsCopyAndAdd(BaseArgs, {XdsClientArg}),
                      error)>>

\* An OnListenerChanged that does not look at the error of
\* CreateServiceConfig and returns the result it has. C8 must tell it from
\* the code's.
OnListenerChangedLive_ErrorIgnored(listener_data) ==
  \E c \in {CreateServiceConfig(weighted_cluster_index_map, listener_data)} :
     /\ \A k \in DOMAIN c.map : c.map[k].next_index <= MaxIndex
     /\ weighted_cluster_index_map' = c.map
     /\ last_rds' = listener_data
     /\ compiled' = [ran |-> TRUE, aborted |-> c.aborted, json |-> c.json,
                     error |-> c.error, alloc |-> c.alloc]
     /\ phase' = IF c.aborted THEN "Aborted" ELSE phase
     /\ returned' =
          IF c.aborted THEN <<>>
          ELSE <<ReturnResult(c.service_config,
                   ChannelArgsCopyAndAdd(BaseArgs,
                                         {XdsClientArg, ConfigSelectorArg}),
                   NoError)>>
     /\ UNCHANGED <<xds_client, watching, start_error>>

\* ListenerWatcher::OnListenerChanged past its first line (lines 136-157).
OnListenerChangedLive(listener_data) ==
  \E c \in {CreateServiceConfig(weighted_cluster_index_map, listener_data)} :
     /\ \A k \in DOMAIN c.map : c.map[k].next_index <= MaxIndex
     /\ weighted_cluster_index_map' = c.map
     /\ last_rds' = listener_data
     /\ compiled' = [ran |-> TRUE, aborted |-> c.aborted, json |-> c.json,
                     error |-> c.error, alloc |-> c.alloc]
     /\ phase' = IF c.aborted THEN "Aborted" ELSE phase
     /\ returned' =
          IF c.aborted THEN <<>>
          ELSE IF c.error # NoError THEN OnErrorReturns(c.error)
          ELSE <<ReturnResult(c.service_config,
                   ChannelArgsCopyAndAdd(BaseArgs,
                                         {XdsClientArg, ConfigSelectorArg}),
                   NoError)>>
     /\ UNCHANGED <<xds_client, watching, start_error>>

\* The watcher is invoked while the process runs and the client watches.
WatcherInvoked == watching /\ phase \in {"Started", "ShutDown"}

\* An OnListenerChanged without the xds_client_ == nullptr return. C3 must
\* tell it from the code's.
OnListenerChanged_NoNullCheck(listener_data) ==
  /\ WatcherInvoked
  /\ last_call' = Call("OnListenerChanged")
  /\ OnListenerChangedLive(listener_data)

\* ListenerWatcher::OnListenerChanged (lines 133-158).
OnListenerChanged(listener_data) ==
  /\ WatcherInvoked
  /\ last_call' = Call("OnListenerChanged")
  /\ IF xds_client = "null" THEN Discarded
     ELSE OnListenerChangedLive(listener_data)

TransportError == "xds transport error"
ClientError == "xds client creation error"

\* An OnError that also empties the cache of action names. The frame
\* property C22 must tell it from the code's.
OnError_ClearsTable(error) ==
  /\ WatcherInvoked
  /\ last_call' = Call("OnError")
  /\ returned' = OnErrorReturns(error)
  /\ weighted_cluster_index_map' =
       IF xds_client = "null" THEN weighted_cluster_index_map ELSE EmptyMap
  /\ UNCHANGED <<phase, xds_client, watching, last_rds, compiled,
                 start_error>>

\* ListenerWatcher::OnError (lines 160-170), invoked by the XdsClient.
OnError(error) ==
  /\ WatcherInvoked
  /\ last_call' = Call("OnError")
  /\ returned' = OnErrorReturns(error)
  /\ UNCHANGED <<phase, xds_client, watching, weighted_cluster_index_map,
                 last_rds, compiled, start_error>>

\* An OnResourceDoesNotExist that reports the missing resource as an error.
\* C10 must tell it from the code's.
OnResourceDoesNotExist_AsError ==
  /\ WatcherInvoked
  /\ last_call' = Call("OnResourceDoesNotExist")
  /\ returned' = OnErrorReturns("resource does not exist")
  /\ UNCHANGED <<phase, xds_client, watching, weighted_cluster_index_map,
                 last_rds, compiled, start_error>>

\* ListenerWatcher::OnResourceDoesNotExist (lines 172-184).
OnResourceDoesNotExist ==
  /\ WatcherInvoked
  /\ last_call' = Call("OnResourceDoesNotExist")
  /\ returned' =
       IF xds_client = "null" THEN <<>>
       ELSE <<ReturnResult(ServiceConfigCreate(EmptyConfig).service_config,
                           ChannelArgsCopy(BaseArgs),
                           ServiceConfigCreate(EmptyConfig).error)>>
  /\ UNCHANGED <<phase, xds_client, watching, weighted_cluster_index_map,
                 last_rds, compiled, start_error>>

\* The steps of the resolver; the history max_next_index is not kept.
Next ==
  \/ /\ \E error \in {NoError, ClientError} : StartLocked(error)
     /\ UNCHANGED max_next_index
  \/ /\ ShutdownLocked
     /\ UNCHANGED max_next_index
  \/ /\ \E listener_data \in RdsUpdates : OnListenerChanged(listener_data)
     /\ UNCHANGED max_next_index
  \/ /\ OnError(TransportError)
     /\ UNCHANGED max_next_index
  \/ /\ OnResourceDoesNotExist
     /\ UNCHANGED max_next_index

Spec == Init /\ [][Next]_vars

\* The route tables made of the weighted-cluster routes with a path prefix.
WeightedUpdates ==
  {u \in RdsUpdates :
     \A i \in DOMAIN u : /\ u[i].weighted_clusters # <<>>
                          /\ u[i].matchers = Matchers("PREFIX", <<>>)}

\* The steps of the resolver over the updates of WeightedUpdates, with the
\* history max_next_index kept: after each step it holds, per
\* cluster_names_key, the highest next_index seen so far.
NextObserved ==
  \/ /\ \E error \in {NoError, ClientError} : StartLocked(error)
     /\ UNCHANGED max_next_index
  \/ /\ ShutdownLocked
     /\ UNCHANGED max_next_index
  \/ /\ \E listener_data \in WeightedUpdates :
          OnListenerChanged(listener_data)
     /\ max_next_index' =
          Observed(max_next_index, weighted_cluster_index_map')
  \/ /\ OnError(TransportError)
     /\ UNCHANGED max_next_index
  \/ /\ OnResourceDoesNotExist
     /\ UNCHANGED max_next_index

SpecObserved == Init /\ [][NextObserved]_vars

\* The steps of the resolver over the updates of SplitUpdates; the history
\* max_next_index is not kept.
NextSplit ==
  \/ /\ \E error \in {NoError, ClientError} : StartLocked(error)
     /\ UNCHANGED max_next_index
  \/ /\ ShutdownLocked
     /\ UNCHANGED max_next_index
  \/ /\ \E listener_data \in SplitUpdates : OnListenerChanged(listener_data)
     /\ UNCHANGED max_next_index
  \/ /\ OnError(TransportError)
     /\ UNCHANGED max_next_index
  \/ /\ OnResourceDoesNotExist
     /\ UNCHANGED max_next_index

SpecSplit == Init /\ [][NextSplit]_vars

\* ------------------------------------------------------------- properties

IsCallback(op) ==
  op \in {"OnListenerChanged", "OnError", "OnResourceDoesNotExist"}

\* The last step was a watcher callback invoked on a started resolver that
\* was not shut down.
LiveCallback == IsCallback(last_call.op) /\ last_call.phase = "Started"

\* The last step was an update that went through CreateServiceConfig.
LiveUpdate == last_call.op = "OnListenerChanged" /\ last_call.phase = "Started"

\* The weighted-cluster routes of a route table, and the action of one: its
\* set of (cluster, weight) pairs.
WeightedRoutes(routes) ==
  {routes[i] : i \in {j \in DOMAIN routes : routes[j].weighted_clusters # <<>>}}

Destination(route) ==
  {<<route.weighted_clusters[i].name, route.weighted_clusters[i].weight>> :
     i \in DOMAIN route.weighted_clusters}

ClusterNameSet(route) ==
  {route.weighted_clusters[i].name : i \in DOMAIN route.weighted_clusters}

Destinations(routes) == {Destination(r) : r \in WeightedRoutes(routes)}

\* C3: once ShutdownLocked has run, no step delivers anything to the result
\* handler or changes the allocation table, and the resolver stays shut
\* down with no client.
C3_PostShutdownSilence ==
  [][phase = "ShutDown" =>
       /\ returned' = <<>>
       /\ weighted_cluster_index_map' = weighted_cluster_index_map
       /\ phase' = "ShutDown"
       /\ xds_client' = "null"]_vars

\* An update callback ran after ShutdownLocked, with a non-empty table.
C3_Witness ==
  /\ phase = "ShutDown"
  /\ last_call = [op |-> "OnListenerChanged", phase |-> "ShutDown"]
  /\ weighted_cluster_index_map # EmptyMap

\* The index the map holds for the action of a weighted-cluster route.
SlotIndex(map, route) ==
  map[KeysOf[route.weighted_clusters].cluster_names_key]
    .cluster_weights_map[KeysOf[route.weighted_clusters].cluster_weights_key]

\* The cluster_weights_keys an update requests in the bucket names_key: the
\* entries of actions_to_process with that cluster_names_key.
RequestedKeys(routes, names_key) ==
  {k \in DOMAIN ActionsToProcess(routes, 1, EmptyMap) :
     ActionsToProcess(routes, 1, EmptyMap)[k] = names_key}

\* C1: a weighted-cluster action (a set of (cluster, weight) pairs) that is
\* in two consecutive updates has the same action name in the second as in
\* the first.
C1_NameStability ==
  [][LiveUpdate' =>
       \A r1 \in WeightedRoutes(last_rds), r2 \in WeightedRoutes(last_rds') :
         Destination(r1) = Destination(r2) =>
           /\ WeightedClustersActionName(weighted_cluster_index_map',
                                         r2.weighted_clusters).ok
           /\ WeightedClustersActionName(weighted_cluster_index_map',
                                         r2.weighted_clusters)
                = WeightedClustersActionName(weighted_cluster_index_map,
                                             r1.weighted_clusters)]_vars

\* C2 as stated: when an update that compiles without abort drops an action
\* A and introduces an action B over the same cluster-name set, B has the
\* index A had and next_index of the bucket is what it was.
C2_ReuseOverChurn ==
  [][(LiveUpdate' /\ ~compiled'.aborted) =>
       \A A \in WeightedRoutes(last_rds), B \in WeightedRoutes(last_rds') :
         (/\ Destination(A) \notin Destinations(last_rds')
          /\ Destination(B) \notin Destinations(last_rds)
          /\ ClusterNameSet(A) = ClusterNameSet(B)) =>
            /\ SlotIndex(weighted_cluster_index_map', B)
                 = SlotIndex(weighted_cluster_index_map, A)
            /\ weighted_cluster_index_map'
                 [KeysOf[B.weighted_clusters].cluster_names_key].next_index
               = weighted_cluster_index_map
                 [KeysOf[B.weighted_clusters].cluster_names_key].next_index]_vars

\* C2, amended: when exactly one slot of a bucket is not requested again by
\* the update and exactly one action the update requests in that bucket is
\* new, the new action gets the index of the dropped slot and next_index of
\* the bucket is what it was.
C2_ReuseOneForOne ==
  [][LiveUpdate' =>
       \A n \in DOMAIN weighted_cluster_index_map :
         LET old_keys == DOMAIN weighted_cluster_index_map[n].cluster_weights_map
             requested == RequestedKeys(last_rds', n)
             dropped == old_keys \ requested
             introduced == requested \ old_keys
         IN (Cardinality(dropped) = 1 /\ Cardinality(introduced) = 1) =>
              \A A \in dropped, B \in introduced :
                /\ n \in DOMAIN weighted_cluster_index_map'
                /\ B \in DOMAIN weighted_cluster_index_map'[n].cluster_weights_map
                /\ weighted_cluster_index_map'[n].cluster_weights_map[B]
                     = weighted_cluster_index_map[n].cluster_weights_map[A]
                /\ weighted_cluster_index_map'[n].next_index
                     = weighted_cluster_index_map[n].next_index]_vars

\* The last update reused an index in a bucket where nothing else was
\* dropped and nothing else was new.
C2_Witness ==
  /\ LiveUpdate
  /\ ~compiled.aborted
  /\ \E e \in compiled.alloc.reused :
       /\ \A f \in compiled.alloc.reused : f.names_key = e.names_key => f = e
       /\ \A f \in compiled.alloc.fresh \cup compiled.alloc.discarded :
            f.names_key # e.names_key

C5_FailedCompileKeepsTable ==
  [][(LiveUpdate' /\ compiled'.error # NoError) =>
       weighted_cluster_index_map' = weighted_cluster_index_map]_vars

\* C6: in every document CreateServiceConfig assembles, the action key of
\* every route entry is the key of exactly one action definition of the
\* document.
C6_OneDefinitionPerAction ==
  (compiled.ran /\ ~compiled.aborted) =>
    \A i \in DOMAIN compiled.json.routes :
      Cardinality({j \in DOMAIN compiled.json.actions :
                     compiled.json.actions[j].key
                       = compiled.json.routes[i].action}) = 1

\* C7: a watcher callback on a started resolver that is not shut down hands
\* exactly one result to the result handler, and it is the result of that
\* callback: the compiled document or the compile error for an update, the
\* error for OnError, the empty document for OnResourceDoesNotExist.
C7_OneDeliveryPerCallback ==
  LiveCallback =>
    /\ Len(returned) = 1
    /\ returned[1].via = "ReturnResult"
    /\ last_call.op = "OnListenerChanged" =>
         /\ returned[1].service_config_error = compiled.error
         /\ compiled.error = NoError =>
              returned[1].service_config = compiled.json
    /\ last_call.op = "OnError" =>
         returned[1].service_config_error = TransportError
    /\ last_call.op = "OnResourceDoesNotExist" =>
         returned[1].service_config = EmptyConfig

\* C8: an update whose compilation fails delivers exactly one result, with
\* the compile error and no document.
C8_CompileErrorOnly ==
  (LiveUpdate /\ compiled.error # NoError) =>
    /\ Len(returned) = 1
    /\ returned[1].via = "ReturnResult"
    /\ returned[1].service_config_error = compiled.error
    /\ returned[1].service_config = NullConfig

\* The last update failed to compile.
C8_Witness == LiveUpdate /\ compiled.error # NoError /\ returned # <<>>

C10_EmptyDocument ==
  (last_call = [op |-> "OnResourceDoesNotExist", phase |-> "Started"]) =>
    /\ Len(returned) = 1
    /\ returned[1].via = "ReturnResult"
    /\ returned[1].service_config.lb_policy # "null"
    /\ returned[1].service_config.routes = <<>>
    /\ returned[1].service_config.actions = <<>>
    /\ returned[1].service_config_error = NoError

\* OnResourceDoesNotExist ran on a started resolver with a non-empty table.
C10_Witness ==
  /\ last_call = [op |-> "OnResourceDoesNotExist", phase |-> "Started"]
  /\ weighted_cluster_index_map # EmptyMap

\* The slots of bucket names_key that an update does not request again, and
\* the actions it requests in that bucket that have no slot yet.
LeftOver(map, routes, names_key) ==
  DOMAIN map[names_key].cluster_weights_map \ RequestedKeys(routes, names_key)
Introduced(map, routes, names_key) ==
  RequestedKeys(routes, names_key) \ DOMAIN map[names_key].cluster_weights_map

\* C11: when an update leaves slots of a bucket unrequested and requests new
\* actions in it, the first new action (in cluster_weights_key order) takes
\* the index of the left-over slot with the smallest cluster_weights_key, and
\* no other new action of the update gets that index.
C11_TieBreak ==
  [][LiveUpdate' =>
       \A n \in DOMAIN weighted_cluster_index_map :
         \E left \in {LeftOver(weighted_cluster_index_map, last_rds', n)},
            new \in {Introduced(weighted_cluster_index_map, last_rds', n)} :
           (left # {} /\ new # {}) =>
             /\ weighted_cluster_index_map'[n].cluster_weights_map[MinStr(new)]
                  = weighted_cluster_index_map[n].cluster_weights_map[MinStr(left)]
             /\ \A B \in new \ {MinStr(new)} :
                  weighted_cluster_index_map'[n].cluster_weights_map[B]
                    # weighted_cluster_index_map[n].cluster_weights_map[MinStr(left)]]_vars

\* The last update reused index 1 in a bucket where the slot with index 0
\* was left over too: the slot with the smaller key was not the one
\* allocated first.
C11_Witness ==
  /\ LiveUpdate
  /\ \E e \in compiled.alloc.reused, d \in compiled.alloc.discarded :
       /\ e.names_key = d.names_key
       /\ e.index = 1
       /\ weighted_cluster_index_map[e.names_key].next_index = 2

\* next_index of bucket names_key, 0 when the map has no such bucket (a
\* bucket is made with next_index = 0).
NextIndexOf(map, names_key) ==
  IF names_key \in DOMAIN map THEN map[names_key].next_index ELSE 0

\* C12: every index an update leaves in a bucket is an index that bucket
\* held before the update (carried over or reused within the bucket) or one
\* the update took from that bucket's next_index; none comes from another
\* bucket.
C12_NoCrossBucketLeakage ==
  [][LiveUpdate' =>
       \A n \in DOMAIN weighted_cluster_index_map' :
         \A k \in DOMAIN weighted_cluster_index_map'[n].cluster_weights_map :
           \E idx \in {weighted_cluster_index_map'[n].cluster_weights_map[k]} :
             \/ /\ n \in DOMAIN weighted_cluster_index_map
                /\ \E k0 \in DOMAIN weighted_cluster_index_map[n].cluster_weights_map :
                     weighted_cluster_index_map[n].cluster_weights_map[k0] = idx
             \/ /\ idx >= NextIndexOf(weighted_cluster_index_map, n)
                /\ idx < weighted_cluster_index_map'[n].next_index]_vars

\* The last update took a fresh index in one bucket while a slot of another
\* bucket was left over unused.
C12_Witness ==
  /\ LiveUpdate
  /\ \E f \in compiled.alloc.fresh, d \in compiled.alloc.discarded :
       f.names_key # d.names_key

\* C13: after an update the table holds exactly the weighted-cluster actions
\* of that update: each weighted route of the update has its slot in the
\* bucket of its cluster_names_key, each slot is the slot of a route of the
\* update, and no bucket is empty.
C13_TableIsTheUpdate ==
  compiled.ran =>
    /\ \A r \in WeightedRoutes(last_rds) :
         /\ KeysOf[r.weighted_clusters].cluster_names_key
              \in DOMAIN weighted_cluster_index_map
         /\ KeysOf[r.weighted_clusters].cluster_weights_key
              \in DOMAIN weighted_cluster_index_map
                    [KeysOf[r.weighted_clusters].cluster_names_key]
                    .cluster_weights_map
    /\ \A n \in DOMAIN weighted_cluster_index_map :
         /\ weighted_cluster_index_map[n].cluster_weights_map # EmptyMap
         /\ \A k \in DOMAIN weighted_cluster_index_map[n].cluster_weights_map :
              \E r \in WeightedRoutes(last_rds) :
                KeysOf[r.weighted_clusters]
                  = [cluster_names_key |-> n, cluster_weights_key |-> k]

\* C14: two weighted routes of one update whose weighted_clusters have the
\* same cluster_weights_key both get an action name, and the same one.
C14_SameKeySameName ==
  compiled.ran =>
    \A r1, r2 \in WeightedRoutes(last_rds) :
      KeysOf[r1.weighted_clusters].cluster_weights_key
        = KeysOf[r2.weighted_clusters].cluster_weights_key =>
          /\ WeightedClustersActionName(weighted_cluster_index_map,
                                        r1.weighted_clusters).ok
          /\ WeightedClustersActionName(weighted_cluster_index_map,
                                        r1.weighted_clusters)
               = WeightedClustersActionName(weighted_cluster_index_map,
                                            r2.weighted_clusters)

\* The composed action key of a route under the map: "cds:" or "weighted:"
\* and the name of its action.
RouteActionKey(map, route) ==
  (IF route.weighted_clusters = <<>> THEN CdsPrefix ELSE WeightedPrefix)
    \o RouteActionName(map, route).name

\* C15: the route list of a compiled document has one entry per route of
\* the update, in the order of the update: entry i has the matchers and the
\* action of route i.
C15_RouteOrder ==
  (compiled.ran /\ ~compiled.aborted) =>
    /\ Len(compiled.json.routes) = Len(last_rds)
    /\ \A i \in DOMAIN last_rds :
         /\ compiled.json.routes[i].path_match
              = PathMatchStr(last_rds[i].matchers.path_matcher)
         /\ Len(compiled.json.routes[i].headers)
              = Len(last_rds[i].matchers.header_matchers)
         /\ compiled.json.routes[i].action
              = RouteActionKey(weighted_cluster_index_map, last_rds[i])

\* The last update compiled two routes with different matchers that share
\* one action.
C15_Witness ==
  /\ compiled.ran
  /\ ~compiled.aborted
  /\ Len(last_rds) = 2
  /\ last_rds[1].matchers # last_rds[2].matchers
  /\ RouteActionKey(weighted_cluster_index_map, last_rds[1])
       = RouteActionKey(weighted_cluster_index_map, last_rds[2])

\* The matcher types the switches of CreateServiceConfigRoute name.
PathMatcherTypes == {"PREFIX", "PATH", "REGEX"}
HeaderMatcherTypes ==
  {"EXACT", "REGEX", "RANGE", "PRESENT", "PREFIX", "SUFFIX"}
Unrecognized(matchers) ==
  \/ matchers.path_matcher \notin PathMatcherTypes
  \/ \E i \in DOMAIN matchers.header_matchers :
       matchers.header_matchers[i] \notin HeaderMatcherTypes

\* C16: an update with a route whose path matcher or header matcher has an
\* unrecognized type delivers one result, with an error and no document.
C16_UnrecognizedMatcherFails ==
  (/\ LiveUpdate
   /\ ~compiled.aborted
   /\ \E i \in DOMAIN last_rds : Unrecognized(last_rds[i].matchers)) =>
    /\ Len(returned) = 1
    /\ returned[1].service_config_error # NoError
    /\ returned[1].service_config = NullConfig

\* C19: after an update, WeightedClustersActionName finds the bucket and the
\* slot of every weighted route of that update: no GPR_ASSERT fails.
C19_AllocatorCannotFail ==
  /\ phase # "Aborted"
  /\ compiled.ran =>
       \A r \in WeightedRoutes(last_rds) :
         WeightedClustersActionName(weighted_cluster_index_map,
                                    r.weighted_clusters).ok

\* C17: in every bucket of the table, two different cluster_weights_keys
\* have different indices.
C17_UniqueIndices ==
  \A n \in DOMAIN weighted_cluster_index_map :
    \A k1, k2 \in DOMAIN weighted_cluster_index_map[n].cluster_weights_map :
      k1 # k2 =>
        weighted_cluster_index_map[n].cluster_weights_map[k1]
          # weighted_cluster_index_map[n].cluster_weights_map[k2]

\* The last update reused an index in a bucket that it left with two slots.
C17_Witness ==
  /\ LiveUpdate
  /\ \E e \in compiled.alloc.reused :
       Cardinality(DOMAIN weighted_cluster_index_map[e.names_key]
                            .cluster_weights_map) >= 2

\* C18 as stated: the next_index of a bucket is never smaller than a
\* next_index the bucket of the same cluster_names_key had after an earlier
\* update.
C18_NextIndexOnlyIncreases ==
  \A n \in DOMAIN weighted_cluster_index_map \cap DOMAIN max_next_index :
    weighted_cluster_index_map[n].next_index >= max_next_index[n]

\* C18, amended: across a step, the next_index of a bucket that is in the
\* table before and after does not decrease, and a bucket that was not in
\* the table starts from 0: its next_index is the number of its slots.
C18_NextIndexWhileKept ==
  [][\A n \in DOMAIN weighted_cluster_index_map' :
       IF n \in DOMAIN weighted_cluster_index_map
       THEN weighted_cluster_index_map'[n].next_index
              >= weighted_cluster_index_map[n].next_index
       ELSE weighted_cluster_index_map'[n].next_index
              = Cardinality(DOMAIN weighted_cluster_index_map'[n]
                                     .cluster_weights_map)]_vars

\* The last update kept a slot of a bucket and took a fresh index in it,
\* and another bucket had been dropped and made again from 0 before.
C18_Witness ==
  /\ LiveUpdate
  /\ \E f \in compiled.alloc.fresh, c \in compiled.alloc.carried :
       f.names_key = c.names_key /\ f.index >= 1
  /\ \E n \in DOMAIN max_next_index \ DOMAIN weighted_cluster_index_map :
       max_next_index[n] >= 1

\* The route tables with the same set of distinct weighted-cluster actions
\* as a route table.
SameActions ==
  [u \in RdsUpdates |->
     {u2 \in RdsUpdates : Destinations(u2) = Destinations(u)}]

\* C20: an update leaves the table that any other route table with the same
\* set of distinct weighted-cluster actions would have left from the same
\* old table, and so gives every action the same name.
C20_Deterministic ==
  [][LiveUpdate' =>
       \A u2 \in SameActions[last_rds'] :
         UpdateWeightedClusterIndexMap(weighted_cluster_index_map, u2).new
           = weighted_cluster_index_map']_vars

\* C21: two weighted routes that one update compiles with the same action
\* name have the same set of (cluster, weight) pairs.
C21_DistinctDestinationsDistinctNames ==
  (compiled.ran /\ ~compiled.aborted) =>
    \A r1, r2 \in WeightedRoutes(last_rds) :
      WeightedClustersActionName(weighted_cluster_index_map,
                                 r1.weighted_clusters)
        = WeightedClustersActionName(weighted_cluster_index_map,
                                     r2.weighted_clusters)
      => Destination(r1) = Destination(r2)

\* C22: OnError and OnResourceDoesNotExist leave the table as it is; and an
\* update that comes after one of them with the set of weighted-cluster
\* actions of the last update compiled gives each action the name it had.
C22_ErrorsKeepNames ==
  [][/\ last_call'.op \in {"OnError", "OnResourceDoesNotExist"} =>
          weighted_cluster_index_map' = weighted_cluster_index_map
     /\ (/\ LiveUpdate'
         /\ last_call.op \in {"OnError", "OnResourceDoesNotExist"}
         /\ Destinations(last_rds') = Destinations(last_rds)) =>
          \A r1 \in WeightedRoutes(last_rds), r2 \in WeightedRoutes(last_rds') :
            Destination(r1) = Destination(r2) =>
              /\ WeightedClustersActionName(weighted_cluster_index_map',
                                            r2.weighted_clusters).ok
              /\ WeightedClustersActionName(weighted_cluster_index_map',
                                            r2.weighted_clusters)
                   = WeightedClustersActionName(weighted_cluster_index_map,
                                                r1.weighted_clusters)]_vars

\* OnError delivered its result on a started resolver whose table holds
\* two slots.
C22_Witness ==
  /\ last_call = [op |-> "OnError", phase |-> "Started"]
  /\ Len(returned) = 1
  /\ \E n \in DOMAIN weighted_cluster_index_map :
       Cardinality(DOMAIN weighted_cluster_index_map[n].cluster_weights_map) = 2

=============================================================================
